---- MODULE Spec2Model ----
(***************************************************************************)
(* A model of NFA.py: the non-deterministic finite automaton class with    *)
(* its simulation cursor (current_state), the one-pass epsilon update, the *)
(* save/restore done by recognizes and the subset construction of          *)
(* build_DFA_from_NFA.                                                     *)
(*                                                                         *)
(* Python sets are objects: "self.current_state = self.start" makes both   *)
(* attributes name ONE set, and set.update changes it in place.  The model *)
(* keeps the value of each attribute and the flag cs_is_start, which says  *)
(* that current_state and start are the same object.                       *)
(***************************************************************************)
EXTENDS Integers, Sequences, FiniteSets, TLC

\* ---------------------------------------------------------------- bounds
\* Automata have the states 0 .. n-1 for n in 1 .. MaxStates.
MaxStates == 4
\* recognizes is called on the sequences of at most MaxLen symbols.
MaxLen == 2

\* ---------------------------------------------------------------- values
\* None, a single state and an iterable of states, the three kinds of value
\* delta may return (NFA.py line 11); hasattr(x, '__iter__') is kind = "set".
\* States are the integers 0, 1, ...: values without __iter__.
NoneVal == [kind |-> "None"]
One(q) == [kind |-> "state", q |-> q]
Many(S) == [kind |-> "set", elems |-> S]
Bool(b) == [kind |-> "bool", val |-> b]
\* What construction leaves behind: whether line 40 warned.
Constructed(w) == [kind |-> "constructed", warned |-> w]

\* The default of the constructor's parameter epsilon.
DefaultEpsilon == "epi"
\* The alphabet handed to the constructor, and a symbol outside every alphabet.
InputAlphabet == {"a", "b"}
Unknown == "z"
Symbols == InputAlphabet \cup {DefaultEpsilon, Unknown}
\* The sequences recognizes is called on: an ordinary symbol, EPSILON and the
\* unknown symbol, in every arrangement of at most MaxLen.
WordSymbols == {"a", DefaultEpsilon, Unknown}
Words == UNION {[1..k -> WordSymbols] : k \in 0..MaxLen}

\* The orders in which "for a in self.alphabet" may visit a set.
Orders(S) == {o \in [1..Cardinality(S) -> S] : \A i, j \in 1..Cardinality(S) : o[i] = o[j] => i = j}

\* ------------------------------------------------- the automata constructed
\* The transition functions the callers supply.  delta is a function object:
\* the model holds what determines it, [n, lo, shape], and Apply evaluates it.
\* Every automaton has the epsilon edges q -> q+1 for lo <= q < n-1.
\*   "fork": delta(0, a) = {0, 1}; every result is a set (set() for none).
\*   "loop": delta(q, a) = q and delta(q, b) = 0; every result is a single
\*           state, or None for none.
Shapes == {"fork", "loop"}

EpsEdge(d, q) == d.lo <= q /\ q < d.n - 1

Apply(d, q, c) ==
    IF d.shape = "fork"
    THEN IF c = DefaultEpsilon
         THEN Many(IF EpsEdge(d, q) THEN {q + 1} ELSE {})
         ELSE IF c = "a" /\ q = 0 THEN Many({0, 1} \cap (0..(d.n - 1)))
         ELSE Many({})
    ELSE IF c = DefaultEpsilon
         THEN IF EpsEdge(d, q) THEN One(q + 1) ELSE NoneVal
         ELSE IF c = "a" THEN One(q)
         ELSE One(0)

\* The start argument: a single state, or (for the "loop" automata) an
\* iterable holding the first and the last state.
StartArg(n, shape) == IF shape = "loop" THEN Many({0, n - 1}) ELSE One(0)

\* The arguments of NFA(states, alphabet, delta, start, accepts).
MkArgs(n, lo, shape) ==
    [states |-> 0..(n-1), alphabet |-> InputAlphabet,
     delta |-> [n |-> n, lo |-> lo, shape |-> shape],
     start |-> StartArg(n, shape), accepts |-> {n - 1}, epsilon |-> DefaultEpsilon]

CtorArgs ==
    {MkArgs(t[1], t[2], t[3]) :
        t \in {u \in (1..MaxStates) \X (0..(MaxStates-1)) \X Shapes : u[2] < u[1]}}

\* The automaton of the second concrete scenario: a single state, start and
\* accepting, no epsilon edge, delta(q, c) = q for every symbol but EPSILON.
Scenario2 == MkArgs(1, 0, "loop")

\* The automaton of the first concrete scenario: states q0, q1, q2 (0, 1, 2),
\* start q0, accepts {q2}, delta(q0, a) = {q0, q1}, delta(q1, EPSILON) = {q2}.
Scenario1 == MkArgs(3, 1, "fork")

\* ---------------------------------------------------------------- state
VARIABLES
    args,   \* the arguments the automaton was constructed with
    self,   \* the NFA object: its attributes, and cs_is_start
    call,   \* the last call made on the object: [op, arg]
    ret,    \* what that call returned
    old,    \* the object just before that call
    twin,   \* the automaton copy() returned, None while there is none
    frame   \* the locals of a build_DFA_from_NFA call in progress, else None

vars == <<args, self, call, ret, old, twin, frame>>

\* ---------------------------------------------------------------- NFA.py
\* The states a value returned by delta contributes (input, lines 107-110).
Flatten(x) ==
    IF x.kind = "set" THEN x.elems
    ELSE IF x.kind = "state" THEN {x.q}
    ELSE {}

\* input(char): None for a symbol outside the alphabet, else the union of
\* delta over current_state, as a new set.
input(s, char) ==
    IF char \notin s.alphabet
    THEN NoneVal
    ELSE Many(UNION {Flatten(Apply(s.delta, i, char)) : i \in s.current_state})

\* _perform_eps_closure(): current_state.update(input(EPSILON)), in place: ONE
\* round of epsilon transitions, and the start set grows with it when both
\* attributes name the same set.
_perform_eps_closure_skip(s) == s

_perform_eps_closure(s) ==
    LET grown == s.current_state \cup input(s, s.EPSILON).elems
    IN  [s EXCEPT !.current_state = grown,
                  !.start = IF s.cs_is_start THEN grown ELSE @]

\* step(char): nothing for a symbol outside the alphabet; else current_state
\* becomes the new set input(char) returned, then the epsilon update.
step_unguarded(s, char) ==
    _perform_eps_closure(
        [s EXCEPT !.current_state = Flatten(input(s, char)), !.cs_is_start = FALSE])

step(s, char) ==
    IF char \notin s.alphabet
    THEN s
    ELSE _perform_eps_closure(
             [s EXCEPT !.current_state = input(s, char).elems, !.cs_is_start = FALSE])

\* input_sequence(char_sequence): step on each symbol in turn.
RECURSIVE input_sequence(_, _)
input_sequence(s, char_sequence) ==
    IF char_sequence = <<>>
    THEN s
    ELSE input_sequence(step(s, Head(char_sequence)), Tail(char_sequence))

\* status(): some current state is accepting.
status(s) == \E i \in s.current_state : i \in s.accepts

\* reset(): current_state = self.start (the same set), then the epsilon update.
reset(s) ==
    _perform_eps_closure([s EXCEPT !.current_state = s.start, !.cs_is_start = TRUE])

\* recognizes(char_sequence): state_save is a reference to the set that
\* current_state names; it is restored as a reference.
recognizes(s, char_sequence) ==
    LET state_save == [is_start |-> s.cs_is_start, val |-> s.current_state]
        s1 == input_sequence(reset(s), char_sequence)
        valid == status(s1)
    IN  [self |-> [s1 EXCEPT !.current_state =
                                 IF state_save.is_start THEN s1.start ELSE state_save.val,
                             !.cs_is_start = state_save.is_start],
         valid |-> valid]

\* __init__: lines 25-37, and whether line 40 warns.
NormalizeStart(start) == IF start.kind = "set" THEN start.elems ELSE {start.q}

__init__(a) ==
    LET s0 == [states |-> a.states,
               start |-> NormalizeStart(a.start),
               delta |-> a.delta,
               accepts |-> a.accepts,
               alphabet |-> a.alphabet \cup {a.epsilon},
               current_state |-> NormalizeStart(a.start),
               cs_is_start |-> TRUE,
               EPSILON |-> a.epsilon]
        s1 == _perform_eps_closure(s0)
    IN  [self |-> s1, warned |-> Cardinality(s1.start) # 1]

\* ------------------------------------------------------ build_DFA_from_NFA
EmptyDict == [a \in {} |-> {}]
InSeq_nonempty(x, q) == Len(q) > 0

InSeq(x, q) == \E i \in 1..Len(q) : q[i] = x
Put(d, k, v) == [x \in DOMAIN d \cup {k} |-> IF x = k THEN v ELSE d[x]]

\* The symbols the loop of line 151 visits, in the order the set yields them.
alphabet_iteration_no_eps(s, order) == SelectSeq(order, LAMBDA a : a # s.EPSILON)

alphabet_iteration(s, order) == order

\* Lines 152-158: the turn of the for loop for symbol a.  L holds the locals
\* delta, to_explore_queue and dfa_states, and the object.
for_body(L, e, a) ==
    LET s1 == step([L.self EXCEPT !.current_state = e, !.cs_is_start = FALSE], a)
        entry == s1.current_state
        fresh == ~InSeq(entry, L.to_explore_queue) /\ ~InSeq(entry, L.dfa_states)
    IN  [L EXCEPT !.self = s1,
                  !.delta = Put(@, e, Put(@[e], a, entry)),
                  !.to_explore_queue = IF fresh THEN Append(@, entry) ELSE @]

\* Lines 151-158 for the symbols left to visit.
RECURSIVE for_alphabet(_, _, _)
for_alphabet(L, e, rest) ==
    IF rest = <<>>
    THEN L
    ELSE for_alphabet(for_body(L, e, Head(rest)), e, Tail(rest))

\* Lines 149-150: e = to_explore_queue.pop(0); delta[e] = dict().
while_pop(L) ==
    [L EXCEPT !.to_explore_queue = Tail(@),
              !.delta = Put(@, Head(L.to_explore_queue), EmptyDict)]

\* The append of line 159 made to the queue instead of to dfa_states.
while_append_requeue(L, e) == [L EXCEPT !.to_explore_queue = Append(@, e)]

\* Line 159: dfa_states.append(e).
while_append(L, e) == [L EXCEPT !.dfa_states = Append(@, e)]

\* Lines 149-159: one turn of the exploration loop.
while_body(L, order) ==
    LET e == Head(L.to_explore_queue)
        L1 == while_pop(L)
    IN  while_append(for_alphabet(L1, e, alphabet_iteration(L1.self, order)), e)

\* Lines 148-159: the exploration loop.
RECURSIVE while_queue(_, _)
while_queue(L, order) ==
    IF Len(L.to_explore_queue) = 0
    THEN L
    ELSE while_queue(while_body(L, order), order)

\* Lines 143-147: saved_state is assigned and never used again; reset(); the
\* locals of the loop.
build_enter(s) ==
    LET s1 == reset(s)
    IN  [self |-> s1,
         delta |-> [x \in {} |-> EmptyDict],
         dfa_states |-> <<>>,
         to_explore_queue |-> <<s1.current_state>>]

\* Lines 162-164: the DFA returned, and the object as the loop left it.
build_return(L) ==
    [self |-> L.self,
     dfa |-> [kind |-> "DFA",
              states |-> L.dfa_states,
              alphabet |-> L.self.alphabet,
              delta |-> L.delta,
              start |-> L.dfa_states[1],
              accepts |-> SelectSeq(L.dfa_states,
                                    LAMBDA x : Cardinality(L.self.accepts \cap x) > 0)]]

build_DFA_from_NFA(s, order) == build_return(while_queue(build_enter(s), order))

\* ------------------------------------------------------------------ copy
\* copy(): NFA(self.states, self.alphabet, self.delta, self.start, self.accepts),
\* with no epsilon argument.  The constructor builds new sets from its
\* arguments (set(start), lines 25-32), so the copy's start is not the set
\* object of the source: start_shared tells whether it is.
copy_sharing(s) ==
    [self |-> __init__([states |-> s.states, alphabet |-> s.alphabet, delta |-> s.delta,
                        start |-> Many(s.start), accepts |-> s.accepts,
                        epsilon |-> DefaultEpsilon]).self,
     start_shared |-> TRUE]

copy(s) ==
    [self |-> __init__([states |-> s.states, alphabet |-> s.alphabet, delta |-> s.delta,
                        start |-> Many(s.start), accepts |-> s.accepts,
                        epsilon |-> DefaultEpsilon]).self,
     start_shared |-> FALSE]

\* Object b after a call that took another object from a_old to a_new:
\* set.update (line 117) changes a set in place, for every attribute naming it.
Peer(b, a_old, a_new, shared) ==
    IF shared /\ a_new.start # a_old.start
    THEN [b EXCEPT !.start = a_new.start,
                   !.current_state = IF b.cs_is_start THEN a_new.start ELSE @]
    ELSE b

\* The calls made on an automaton and on its copy, and their effect on the
\* object they are made on.
MethodCalls(s) ==
    {[op |-> "step", arg |-> c] : c \in Symbols}
        \cup {[op |-> "reset", arg |-> NoneVal]}
        \cup {[op |-> "recognizes", arg |-> w] : w \in {v \in Words : Len(v) <= 1}}
        \cup {[op |-> "build_DFA_from_NFA", arg |-> o] : o \in Orders(s.alphabet)}

Perform(s, m) ==
    CASE m.op = "step" -> step(s, m.arg)
      [] m.op = "reset" -> reset(s)
      [] m.op = "recognizes" -> recognizes(s, m.arg).self
      [] m.op = "build_DFA_from_NFA" -> build_DFA_from_NFA(s, m.arg).self

\* What the call records of a method call: the method and the object.
CallOf(m, on) == [op |-> m.op, arg |-> NoneVal, on |-> on]

\* -------------------------------------------------------------- validate
\* "x in self.states" for a value x: a state is a member when it is one of the
\* states; None is not; a set is looked up by value, and no state is a set.
in_states(x, states) == x.kind = "state" /\ x.q \in states

\* validate(): the asserts of lines 72-81 in order; the line of the first
\* assert that fails, 0 when none does.
validate(s) ==
    IF ~(s.accepts \subseteq s.states) THEN 72
    ELSE IF ~in_states(Many(s.start), s.states) THEN 73
    ELSE IF ~in_states(Many(s.current_state), s.states) THEN 74
    ELSE IF \E state \in s.states, char \in s.alphabet :
                LET a == Apply(s.delta, state, char)
                IN  a.kind = "set" /\ ~(a.elems \subseteq s.states)
         THEN 79
    ELSE IF \E state \in s.states, char \in s.alphabet :
                LET a == Apply(s.delta, state, char)
                IN  a.kind # "set" /\ ~in_states(a, s.states)
         THEN 81
    ELSE 0

Validated(line) == [kind |-> "validate", ok |-> line = 0, line |-> line]

\* ---------------------------------------------------------------- actions
Init ==
    /\ args \in CtorArgs
    /\ self = __init__(args).self
    /\ call = [op |-> "__init__", arg |-> NoneVal]
    /\ ret = Constructed(__init__(args).warned)
    /\ old = __init__(args).self
    /\ twin = NoneVal
    /\ frame = NoneVal

Step ==
    \E c \in Symbols :
        /\ self' = step(self, c)
        /\ call' = [op |-> "step", arg |-> c]
        /\ ret' = NoneVal
        /\ old' = self
        /\ UNCHANGED <<args, twin, frame>>

Input ==
    \E c \in Symbols :
        /\ ret' = input(self, c)
        /\ call' = [op |-> "input", arg |-> c]
        /\ old' = self
        /\ UNCHANGED <<args, self, twin, frame>>

Reset ==
    /\ self' = reset(self)
    /\ call' = [op |-> "reset", arg |-> NoneVal]
    /\ ret' = NoneVal
    /\ old' = self
    /\ UNCHANGED <<args, twin, frame>>

Status ==
    /\ ret' = Bool(status(self))
    /\ call' = [op |-> "status", arg |-> NoneVal]
    /\ old' = self
    /\ UNCHANGED <<args, self, twin, frame>>

Recognizes ==
    \E w \in Words :
        LET r == recognizes(self, w)
        IN  /\ self' = r.self
            /\ ret' = Bool(r.valid)
            /\ call' = [op |-> "recognizes", arg |-> w]
            /\ old' = self
            /\ UNCHANGED <<args, twin, frame>>

BuildDFA ==
    \E order \in Orders(self.alphabet) :
        LET r == build_DFA_from_NFA(self, order)
        IN  /\ self' = r.self
            /\ ret' = r.dfa
            /\ call' = [op |-> "build_DFA_from_NFA", arg |-> NoneVal]
            /\ old' = self
            /\ UNCHANGED <<args, twin, frame>>

Validate ==
    /\ ret' = Validated(validate(self))
    /\ call' = [op |-> "validate", arg |-> NoneVal]
    /\ old' = self
    /\ UNCHANGED <<args, self, twin, frame>>

Next ==
    \/ Step
    \/ Input
    \/ Reset
    \/ Status
    \/ Recognizes
    \/ BuildDFA
    \/ Validate

Spec == Init /\ [][Next]_vars

\* ------------------------------------------- an automaton and its copy
\* c = n.copy(), then calls on n (self) and on c (twin).  old is the object
\* the call was made on, just before the call.
MakeCopy ==
    /\ twin = NoneVal
    /\ twin' = copy(self)
    /\ self' = Peer(self, self, twin'.self, twin'.start_shared)
    /\ call' = [op |-> "copy", arg |-> NoneVal, on |-> "self"]
    /\ ret' = NoneVal
    /\ old' = self
    /\ UNCHANGED <<args, frame>>

CallOnSelf ==
    \E m \in MethodCalls(self) :
        LET s1 == Perform(self, m)
        IN  /\ self' = s1
            /\ twin' = IF twin = NoneVal THEN twin
                       ELSE [twin EXCEPT !.self = Peer(@, self, s1, twin.start_shared)]
            /\ call' = CallOf(m, "self")
            /\ ret' = NoneVal
            /\ old' = self
            /\ UNCHANGED <<args, frame>>

CallOnTwin ==
    /\ twin # NoneVal
    /\ \E m \in MethodCalls(twin.self) :
        LET t1 == Perform(twin.self, m)
        IN  /\ twin' = [twin EXCEPT !.self = t1]
            /\ self' = Peer(self, twin.self, t1, twin.start_shared)
            /\ call' = CallOf(m, "twin")
            /\ ret' = NoneVal
            /\ old' = twin.self
            /\ UNCHANGED <<args, frame>>

NextCopy ==
    \/ MakeCopy
    \/ CallOnSelf
    \/ CallOnTwin

SpecCopy == Init /\ [][NextCopy]_vars

\* ------------------------------------- build_DFA_from_NFA, line by line
\* The call as the steps it takes: entering, popping the queue, one turn of
\* the for loop at a time, appending to dfa_states, returning.  frame holds
\* the iteration order, the locals, the position (pc), the subset e being
\* explored and the symbols left to visit for it; the object is self
\* throughout.  No other call is made while one is in progress.
Locals(L) ==
    [delta |-> L.delta, dfa_states |-> L.dfa_states, to_explore_queue |-> L.to_explore_queue]

InFrame(f, s) ==
    [self |-> s, delta |-> f.locals.delta, dfa_states |-> f.locals.dfa_states,
     to_explore_queue |-> f.locals.to_explore_queue]

IdleStep ==
    /\ frame = NoneVal
    /\ \E c \in Symbols :
        /\ self' = step(self, c)
        /\ call' = [op |-> "step", arg |-> c]
    /\ ret' = NoneVal
    /\ old' = self
    /\ UNCHANGED <<args, twin, frame>>

IdleReset ==
    /\ frame = NoneVal
    /\ self' = reset(self)
    /\ call' = [op |-> "reset", arg |-> NoneVal]
    /\ ret' = NoneVal
    /\ old' = self
    /\ UNCHANGED <<args, twin, frame>>

BuildEnter ==
    /\ frame = NoneVal
    /\ \E order \in Orders(self.alphabet) :
        LET L == build_enter(self)
        IN  /\ self' = L.self
            /\ frame' = [order |-> order, locals |-> Locals(L), pc |-> "while",
                         e |-> {}, rest |-> <<>>]
    /\ call' = [op |-> "build_DFA_from_NFA", arg |-> NoneVal]
    /\ ret' = NoneVal
    /\ old' = self
    /\ UNCHANGED <<args, twin>>

BuildPop ==
    /\ frame # NoneVal
    /\ frame.pc = "while"
    /\ Len(frame.locals.to_explore_queue) # 0
    /\ frame' = [frame EXCEPT !.locals = Locals(while_pop(InFrame(frame, self))),
                              !.pc = "for",
                              !.e = Head(frame.locals.to_explore_queue),
                              !.rest = alphabet_iteration(self, frame.order)]
    /\ UNCHANGED <<args, self, call, ret, old, twin>>

BuildFor ==
    /\ frame # NoneVal
    /\ frame.pc = "for"
    /\ frame.rest # <<>>
    /\ \E L \in {for_body(InFrame(frame, self), frame.e, Head(frame.rest))} :
        /\ self' = L.self
        /\ frame' = [frame EXCEPT !.locals = Locals(L), !.rest = Tail(@)]
    /\ UNCHANGED <<args, call, ret, old, twin>>

BuildAppend ==
    /\ frame # NoneVal
    /\ frame.pc = "for"
    /\ frame.rest = <<>>
    /\ frame' = [frame EXCEPT !.locals = Locals(while_append(InFrame(frame, self), frame.e)),
                              !.pc = "while",
                              !.e = {}]
    /\ UNCHANGED <<args, self, call, ret, old, twin>>

BuildReturn ==
    /\ frame # NoneVal
    /\ frame.pc = "while"
    /\ Len(frame.locals.to_explore_queue) = 0
    /\ ret' = build_return(InFrame(frame, self)).dfa
    /\ frame' = NoneVal
    /\ UNCHANGED <<args, self, call, old, twin>>

BuildRun ==
    \/ BuildPop
    \/ BuildFor
    \/ BuildAppend
    \/ BuildReturn

NextBuild ==
    \/ IdleStep
    \/ IdleReset
    \/ BuildEnter
    \/ BuildPop
    \/ BuildFor
    \/ BuildAppend
    \/ BuildReturn

\* The interpreter runs a call in progress on: whichever line is next, is
\* executed.
SpecBuild == Init /\ [][NextBuild]_vars /\ WF_vars(BuildRun)

\* ---------------------------------------------------------------- claims
Range(q) == {q[i] : i \in 1..Len(q)}
Build == "build_DFA_from_NFA"

\* The sequences of alphabet symbols of at most MaxLen.
AlphabetWords == UNION {[1..k -> InputAlphabet \cup {DefaultEpsilon}] : k \in 0..MaxLen}

\* Running w through a DFA's table from its start state ends in an accepting subset.
RECURSIVE DFAEnd(_, _, _)
DFAEnd(dfa, E, w) ==
    IF w = <<>> THEN E ELSE DFAEnd(dfa, dfa.delta[E][Head(w)], Tail(w))

DFAAccepts(dfa, w) == DFAEnd(dfa, dfa.start, w) \in Range(dfa.accepts)

\* w with the symbols outside the alphabet deleted.
Strip(s, w) == SelectSeq(w, LAMBDA c : c \in s.alphabet)

\* C1: after construction, after every reset() and after every step(c) with c
\* in the alphabet, current_state is closed under epsilon transitions: every
\* state one epsilon transition away from a member is a member (and so every
\* state any number of epsilon transitions away).
C1_Saturation ==
    (call.op \in {"__init__", "reset"} \/ (call.op = "step" /\ call.arg \in self.alphabet))
        => \A q \in self.current_state :
               Flatten(Apply(self.delta, q, self.EPSILON)) \subseteq self.current_state

\* C2: the DFA build_DFA_from_NFA() returns accepts a sequence of alphabet
\* symbols exactly when recognizes does, for recognizes called after the DFA
\* was built and for recognizes called just before it was built.
C2_LanguageEquivalence ==
    /\ call.op = Build =>
           \A w \in AlphabetWords : DFAAccepts(ret, w) = recognizes(self, w).valid
    /\ (call.op = "recognizes" /\ Range(call.arg) \subseteq self.alphabet) =>
           \A order \in Orders(self.alphabet) :
               DFAAccepts(build_DFA_from_NFA(self, order).dfa, call.arg) = ret.val

\* C3: the value of current_state after recognizes(w) returns is its value
\* just before the call.
C3_RecognizesKeepsCursor ==
    call.op = "recognizes" => self.current_state = old.current_state

\* C4: the value of current_state after build_DFA_from_NFA() returns is its
\* value just before the call.
C4_BuildRestoresCursor ==
    call.op = Build => self.current_state = old.current_state

\* C5: after reset(), current_state has the value it had immediately after
\* construction.
C5_ResetToConstructionValue ==
    call.op = "reset" => self.current_state = __init__(args).self.current_state

\* C6: states, alphabet, accepts and start keep the values the constructor gave
\* them, start being the normalized set of initial states passed in.
C6_StructuralFieldsImmutable ==
    /\ self.states = args.states
    /\ self.alphabet = args.alphabet \cup {args.epsilon}
    /\ self.accepts = args.accepts
    /\ self.start = NormalizeStart(args.start)

\* C7: for a symbol c outside the alphabet, step(c) leaves every attribute as
\* it was, input(c) returns None (not an empty set), and recognizes(w) returns
\* what recognizes returns, from the same state, on w with the symbols outside
\* the alphabet deleted.
C7_UnknownSymbolNoOp ==
    /\ (call.op = "step" /\ call.arg \notin old.alphabet) => self = old /\ ret = NoneVal
    /\ (call.op = "input" /\ call.arg \notin old.alphabet) => self = old /\ ret = NoneVal
    /\ call.op = "recognizes" =>
           ret.val = recognizes(old, Strip(old, call.arg)).valid

\* A call of recognizes on a sequence mixing the unknown symbol with a symbol
\* that moves the cursor to an accepting set.
C7_Witness ==
    /\ call.op = "recognizes"
    /\ Unknown \in Range(call.arg)
    /\ "a" \in Range(call.arg)
    /\ ret.val
    /\ ~recognizes(old, <<>>).valid

\* C8: the table of the DFA returned has an entry delta[E][a] for every subset
\* E of the DFA state list and every symbol a of the alphabet, EPSILON included.
C8_Totality ==
    call.op = Build =>
        \A E \in Range(ret.states) :
            /\ E \in DOMAIN ret.delta
            /\ \A a \in self.alphabet : a \in DOMAIN ret.delta[E]

\* A DFA of at least three different subsets was returned.
C8_Witness ==
    call.op = Build /\ Cardinality(Range(ret.states)) >= 3

\* C9: applying _perform_eps_closure a second time changes nothing:
\* Closure(Closure(S)) = Closure(S) for every reachable cursor S.
C9_ClosureIdempotent ==
    _perform_eps_closure(_perform_eps_closure(self)).current_state
        = _perform_eps_closure(self).current_state

\* C10 as stated: for the automaton of scenario 1 the DFA has exactly 2 states,
\* {q0} and {q0, q1, q2}, of which only the second is accepting.
C10_TwoStates ==
    (args = Scenario1 /\ call.op = Build) =>
        /\ Range(ret.states) = {{0}, {0, 1, 2}}
        /\ Range(ret.accepts) = {{0, 1, 2}}

\* C10 as amended: for the automaton of scenario 1 the DFA has exactly 4
\* different states, {q0}, {q0, q1, q2}, the empty subset and {q2}; its start
\* state is {q0} and its accepting states are {q0, q1, q2} and {q2}.
C10_FourStates ==
    (args = Scenario1 /\ call.op = Build) =>
        /\ Range(ret.states) = {{0}, {0, 1, 2}, {}, {2}}
        /\ ret.start = {0}
        /\ Range(ret.accepts) = {{0, 1, 2}, {2}}

\* The DFA of scenario 1 was built.
C10_Witness ==
    args = Scenario1 /\ call.op = Build /\ ret.kind = "DFA"

\* C11 as stated: for the single-state automaton of scenario 2 the DFA has
\* exactly one state, {q}, which is accepting, and every symbol of the table
\* maps it to itself.
C11_OneState ==
    (args = Scenario2 /\ call.op = Build) =>
        /\ Range(ret.states) = {{0}}
        /\ Range(ret.accepts) = {{0}}
        /\ \A a \in DOMAIN ret.delta[{0}] : ret.delta[{0}][a] = {0}

\* C11 as amended: the DFA has exactly 2 different states, {q} and the empty
\* subset; {q} is the start state and the only accepting state; every symbol
\* but EPSILON maps {q} to itself, EPSILON maps {q} to the empty subset, and
\* every symbol maps the empty subset to itself.
C11_TwoStates ==
    (args = Scenario2 /\ call.op = Build) =>
        /\ Range(ret.states) = {{0}, {}}
        /\ ret.start = {0}
        /\ Range(ret.accepts) = {{0}}
        /\ \A a \in self.alphabet :
               /\ ret.delta[{0}][a] = (IF a = self.EPSILON THEN {} ELSE {0})
               /\ ret.delta[{}][a] = {}

\* The DFA of scenario 2 was built.
C11_Witness ==
    args = Scenario2 /\ call.op = Build /\ ret.kind = "DFA"

\* The states reachable from S by zero or more epsilon transitions.
RECURSIVE EpsClosure(_, _)
EpsClosure(s, S) ==
    LET T == S \cup UNION {Flatten(Apply(s.delta, q, s.EPSILON)) : q \in S}
    IN  IF T = S THEN S ELSE EpsClosure(s, T)

\* The attributes C13 names.
Attributes(s) == <<s.current_state, s.start, s.states, s.alphabet, s.accepts>>

\* C12: the automaton copy() returns has the states, alphabet, start and
\* accepts of the source at the time of the call, and its current_state is the
\* epsilon-closure of that start.
C12_CopyPreservesFields ==
    call.op = "copy" =>
        /\ twin.self.states = old.states
        /\ twin.self.alphabet = old.alphabet
        /\ twin.self.start = old.start
        /\ twin.self.accepts = old.accepts
        /\ twin.self.current_state = EpsClosure(old, old.start)

\* C13: after c = n.copy(), a step, reset, recognizes or build_DFA_from_NFA
\* call on c leaves current_state, start, states, alphabet and accepts of n
\* unchanged, and such a call on n leaves those of c unchanged.
C13_NoSharedState ==
    [][(twin # NoneVal /\ twin' # NoneVal) =>
           /\ call'.on = "twin" => Attributes(self') = Attributes(self)
           /\ call'.on = "self" => Attributes(twin'.self) = Attributes(twin.self)]_vars

\* A reset() on the copy has grown the copy's start set in place, and the
\* source's start set is another set.
C13_Witness ==
    /\ twin # NoneVal
    /\ call.op = "reset"
    /\ call.on = "twin"
    /\ twin.self.start # old.start
    /\ twin.self.start # self.start

\* C14: the constructor warns exactly when the normalized start set supplied
\* by the caller has more than one element; a single initial state never
\* triggers the warning.
C14_WarningIffSeveralStarts ==
    call.op = "__init__" =>
        (ret.warned <=> Cardinality(NormalizeStart(args.start)) > 1)

\* The structural conditions validate is to check.
WellFormed(s) ==
    /\ s.accepts \subseteq s.states
    /\ s.start \subseteq s.states
    /\ s.current_state \subseteq s.states
    /\ \A q \in s.states, c \in s.alphabet :
           LET a == Apply(s.delta, q, c)
           IN  \/ a.kind = "state" /\ a.q \in s.states
               \/ a.kind = "set" /\ a.elems \subseteq s.states

\* C15: validate() completes without error exactly when accepts is a subset of
\* states, start and current_state hold only states, and delta returns a member
\* or a subset of states for every state and symbol.
C15_ValidateIffWellFormed ==
    call.op = "validate" => (ret.ok <=> WellFormed(old))

\* C16: for a symbol c of the alphabet, after step(c) current_state is exactly
\* the set of states reachable by zero or more epsilon transitions from the
\* union over q in the cursor of delta(q, c).
C16_StepIsClosureOfInput ==
    (call.op = "step" /\ call.arg \in old.alphabet) =>
        self.current_state = EpsClosure(old, input(old, call.arg).elems)

\* C17: no subset is appended to the exploration queue more than once, so each
\* is processed once and the DFA state list holds no subset twice.
C17_NoDuplicateSubsets ==
    call.op = Build =>
        \A i, j \in 1..Len(ret.states) : ret.states[i] = ret.states[j] => i = j

\* C19: recognizes(w) returns the same boolean whatever calls preceded it: the
\* one it returns as the first call after construction.
C19_RecognizesSameEveryTime ==
    call.op = "recognizes" =>
        ret.val = recognizes(__init__(args).self, call.arg).valid

\* C20: every target delta[E][a] of the table is a member of the DFA state
\* list and a key of the table, and the DFA start state, dfa_states[0], is the
\* cursor reset() gives at the beginning of the call.
C20_TableClosed ==
    call.op = Build =>
        /\ \A E \in DOMAIN ret.delta : \A a \in DOMAIN ret.delta[E] :
               /\ ret.delta[E][a] \in Range(ret.states)
               /\ ret.delta[E][a] \in DOMAIN ret.delta
        /\ ret.states[1] = reset(old).current_state
        /\ ret.start = ret.states[1]

\* A DFA was returned whose table leads from the start state to two other
\* subsets.
C20_Witness ==
    /\ call.op = Build
    /\ Cardinality({ret.delta[ret.start][a] : a \in DOMAIN ret.delta[ret.start]}
                       \ {ret.start}) >= 2

\* C18: build_DFA_from_NFA terminates: a call in progress eventually empties
\* the queue and returns.
C18_BuildTerminates == (frame # NoneVal) ~> (frame = NoneVal)

\* A call has returned a DFA of four subsets or more.
C18_Witness ==
    /\ frame = NoneVal
    /\ call.op = Build
    /\ ret.kind = "DFA"
    /\ Cardinality(Range(ret.states)) >= 4

====
